---- MODULE Spec2Model ----
(***************************************************************************)
(* Model of the FastAPI service of src/main.py: the Redis read-through     *)
(* cache in front of GET /users/, its invalidation by POST /users/, and    *)
(* the uncached GET /employees/.  Every request is a process; every await  *)
(* of a handler is a point where other requests and the clock may run.     *)
(***************************************************************************)
EXTENDS Integers, Sequences, FiniteSets, TLC

\* ------------------------------------------------------------------ bounds
\* Number of POST /users/ calls issued in one behaviour.
MaxCreates == 2
\* Seconds that pass in one step of the clock.
TickSeconds == 30
\* Number of runs of seed_db.py in one behaviour.
MaxSeedRuns == 3
\* Depth of nested seed_employees calls at which the interpreter raises
\* RecursionError (sys.getrecursionlimit() is 1000 frames by default).
RecursionLimit == 3

\* ------------------------------------------------------- program constants
CACHE_EXPIRY_SECONDS == 60

\* The requests in flight at one time: two GET /users/, one POST /users/; a
\* GET /employees/ is one step and needs no place of its own.
Readers == {"r1", "r2"}
Writers == {"w1"}
EmpReaders == {"e1"}
Procs == Readers \cup Writers

Names == {"Ann"}
Emails == {"a@x.com", "b@x.com"}

\* ---------------------------------------------------------------- helpers
Min(a, b) == IF a < b THEN a ELSE b

Range(s) == {s[i] : i \in DOMAIN s}

\* ------------------------------------------------------------------- JSON
\* A JSON text is a sequence of tokens, every token a string.
Digits == <<"0", "1", "2", "3", "4", "5", "6", "7", "8", "9">>

IntToStr(n) == Digits[n + 1]

StrToInt(s) == CHOOSE n \in 0..(Len(Digits) - 1) : Digits[n + 1] = s

RECURSIVE DumpItems(_)
DumpItems(l) ==
    IF Len(l) = 0 THEN <<>>
    ELSE LET o == <<"{", "id", IntToStr(l[1].id), "name", l[1].name,
                    "email", l[1].email, "}">>
         IN IF Len(l) = 1 THEN o
            ELSE o \o <<",">> \o DumpItems(Tail(l))

json_dumps(l) == <<"[">> \o DumpItems(l) \o <<"]">>

RECURSIVE LoadItems(_)
LoadItems(s) ==
    IF s[1] = "]" THEN <<>>
    ELSE LET o == [id |-> StrToInt(s[3]), name |-> s[5], email |-> s[7]]
         IN IF s[9] = ","
            THEN <<o>> \o LoadItems(SubSeq(s, 10, Len(s)))
            ELSE <<o>>

json_loads(s) == LoadItems(Tail(s))

\* ------------------------------------------------------------------ Redis
\* The one cell the service uses, key "users:all": absent, or a text with the
\* seconds it has left to live.
NoEntry == [present |-> FALSE, val |-> <<>>, ttl |-> 0]

\* What get returns for a missing key (Python's None).
None == <<"None">>

RedisGet(c) == IF c.present THEN c.val ELSE None

\* The expiry taken for another unit: the entry lives twice as long.
RedisSetDoubleTtl(c, v, ex) == [present |-> TRUE, val |-> v, ttl |-> ex + ex]

RedisSet(c, v, ex) == [present |-> TRUE, val |-> v, ttl |-> ex]

\* The delete of another key: the cell stays as it is.
RedisDeleteWrongKey(c) == c

RedisDelete(c) == NoEntry

\* An entry set without an expiry: it never goes.
RedisExpireNever(c, d) == c

\* Passive expiry: d seconds pass.
RedisExpire(c, d) ==
    IF c.present /\ c.ttl > d THEN [c EXCEPT !.ttl = c.ttl - d] ELSE NoEntry

\* The truthiness of the parsed list instead of the text: "[]" is false too.
TruthyParsed(v) == v # None /\ Len(v) > Len(<<"[", "]">>)

\* Python truthiness of what get returned: None and "" are false.
Truthy(v) == v # None /\ Len(v) > 0

\* ----------------------------------------------------------- Record Store
\* users and employees are the tables, rows in primary-key order.
\* No unique index on email.
UniqueViolationOff(us, e) == FALSE

UniqueViolation(us, e) == \E i \in DOMAIN us : us[i].email = e

\* A sequence that starts again at 1 for every row.
NextIdFromOne(us) == 1

NextId(us) == IF Len(us) = 0 THEN 1 ELSE us[Len(us)].id + 1

InsertUser(us, n, e) == Append(us, [id |-> NextId(us), name |-> n, email |-> e])

\* A select that loses the first row.
SelectUsersSkipFirst(us) == IF Len(us) > 1 THEN Tail(us) ELSE us

SelectUsers(us) == us

SelectEmployees(es) == es

UsersData(us) ==
    [i \in DOMAIN us |-> [id |-> us[i].id, name |-> us[i].name, email |-> us[i].email]]

EmployeesData(es) == [i \in DOMAIN es |-> [id |-> es[i].id, name |-> es[i].name]]

SeedEmployees ==
    << [id |-> 1, name |-> "Alice Smith"], [id |-> 2, name |-> "Bob Johnson"],
       [id |-> 3, name |-> "Charlie Brown"], [id |-> 4, name |-> "David Lee"] >>

\* Lines 35-40 of seed_db.py: the names of the rows added, in order.
SeedNames == << "Alice Smith", "Bob Johnson", "Charlie Brown", "David Lee" >>

\* Lines 42-43 of seed_db.py: the rows are added after those of the table, with
\* the ids the sequence gives next.
AddSeedEmployees(es) ==
    es \o [i \in DOMAIN SeedNames |->
             [id |-> (IF Len(es) = 0 THEN 0 ELSE es[Len(es)].id) + i,
              name |-> SeedNames[i]]]

\* A table that holds one row of its own.
OtherEmployees == << [id |-> 1, name |-> "Eve Adams"] >>

\* A seeding that never finds the table filled.
SeedSkipsNever(existing_employees) == FALSE

\* Line 30 of seed_db.py.
SeedSkips(existing_employees) == Len(existing_employees) > 0

\* An interpreter without a limit on the depth of calls.
RecursionExceededNever(depth) == FALSE

\* Line 54 of seed_db.py calls seed_employees from inside seed_employees: at
\* this depth the interpreter raises RecursionError in place of running a call.
RecursionExceeded(depth) == depth >= RecursionLimit

\* ------------------------------------------------------------------ state
VARIABLES
    users,            \* table users
    employees,        \* table employees
    cache,            \* the Redis cell under the key "users:all"
    pc,               \* where every request stands
    users_data,       \* list_users: the rows it read, as dictionaries
    db_user,          \* create_user: the User object of the call
    resp,             \* the response the last step sent, NoResp when it sent none
    \* history, read by the properties only
    age,              \* seconds since the commit of every users row, capped at the TTL
    invalidated,      \* ids of the rows whose create_user call has deleted the key
    mustSee,          \* list_users: invalidated, as it was when the call started
    mustSeeOld,       \* list_users: ids committed a TTL or more before the call started
    nq,               \* list_users: Record Store queries of the call
    nset,             \* list_users: cache sets of the call
    filled,           \* what the call of the last cache set returned (<<>> once that
                      \* set is a TTL old or a delete followed it)
    fillAge,          \* seconds since the last cache set, capped at the TTL
    fillLive,         \* a cache set happened and no delete followed it
    lastCreate,       \* the last create_user call that ran with no other request in flight
    ncreates,         \* create_user calls issued so far
    abandoned,        \* create_user calls cancelled between commit and delete: the id
                      \* of the row, whether the key held an entry then, and the
                      \* seconds that entry had left
    mustSeeAb,        \* list_users: ids abandoned under an entry that had run out
                      \* when the call started
    \* startup (on_startup)
    phase,            \* "startup", "ping", "serving" or "failed"
    pingFailed,       \* the ping of on_startup raised ConnectionError
    \* seed_db.py
    spc,              \* where the run of seed_employees stands
    nruns,            \* runs of seed_employees started so far
    outcomes,         \* how each run ended, in order: "skipped", "seeded" or "failed"
    retries,          \* depth of the run's calls of seed_employees from its own
                      \* error path
    empBefore         \* table employees when the run started

vars == << users, employees, cache, pc, users_data, db_user, resp, age, invalidated,
           mustSee, mustSeeOld, nq, nset, filled, fillAge, fillLive,
           lastCreate, ncreates, abandoned, mustSeeAb, phase, pingFailed, spc, nruns,
           outcomes, retries, empBefore >>

bootVars == << phase, pingFailed >>

seedVars == << spc, nruns, outcomes, retries, empBefore >>

NoUser == [id |-> 0, name |-> "", email |-> ""]

NoCreate == [w |-> "-", status |-> "none", rec |-> NoUser, pre |-> None, reader |-> "-"]

\* A response: kind is "users", "user", "employees" or "error"; val is the body, a
\* sequence (of the one created record for "user"); err is the exception of an
\* "error"; the rest is the history of the call that returned it (delSaw:
\* whether its delete or set of the key found an entry there).
NoResp ==
    [kind |-> "none", who |-> "-", val |-> <<>>, err |-> "none", path |-> "none",
     nq |-> 0, nset |-> 0,
     mustSee |-> {}, mustSeeOld |-> {}, mustSeeAb |-> {}, after |-> NoCreate,
     delSaw |-> "none"]

InFlight == {p \in Procs : pc[p] # "idle"}

Ids(l) == {l[i].id : i \in DOMAIN l}

\* The ids of the rows of a set of abandoned writes.
AbandonedIds(as) == {a.id : a \in as}

\* The service with no request yet, and no run of the seeding script.
InitCore ==
    /\ users = <<>>
    /\ cache = NoEntry
    /\ pc = [p \in Procs |-> "idle"]
    /\ users_data = [p \in Readers |-> <<>>]
    /\ db_user = [p \in Writers |-> NoUser]
    /\ resp = NoResp
    /\ age = <<>>
    /\ invalidated = {}
    /\ mustSee = [p \in Readers |-> {}]
    /\ mustSeeOld = [p \in Readers |-> {}]
    /\ nq = [p \in Readers |-> 0]
    /\ nset = [p \in Readers |-> 0]
    /\ filled = <<>>
    /\ fillAge = CACHE_EXPIRY_SECONDS
    /\ fillLive = FALSE
    /\ lastCreate = NoCreate
    /\ ncreates = 0
    /\ abandoned = {}
    /\ mustSeeAb = [p \in Readers |-> {}]
    /\ pingFailed = FALSE
    /\ spc = "idle"
    /\ nruns = 0
    /\ outcomes = <<>>
    /\ retries = 0
    /\ empBefore = <<>>

\* The service once on_startup has returned.
Init ==
    /\ InitCore
    /\ employees \in {<<>>, SeedEmployees}
    /\ phase = "serving"

\* ------------------------------------------------------------ GET /users/
ListUsersStart(p) ==
    /\ pc[p] = "idle"
    /\ pc' = [pc EXCEPT ![p] = "get"]
    /\ mustSee' = [mustSee EXCEPT ![p] = invalidated]
    /\ mustSeeOld' = [mustSeeOld EXCEPT
                        ![p] = {users[i].id : i \in {j \in DOMAIN users :
                                                      age[j] >= CACHE_EXPIRY_SECONDS}}]
    /\ lastCreate' = IF lastCreate.status = "returned" /\ lastCreate.reader = "-"
                        /\ InFlight = {}
                     THEN [lastCreate EXCEPT !.reader = p]
                     ELSE NoCreate
    /\ mustSeeAb' = [mustSeeAb EXCEPT
                       ![p] = AbandonedIds({b \in abandoned : b.had /\ b.left = 0})]
    /\ resp' = NoResp
    /\ UNCHANGED << users, employees, cache, users_data, db_user, age,
                    invalidated, nq, nset, filled, fillAge, fillLive, ncreates,
                    abandoned, bootVars, seedVars >>

\* The response of list_users call p, and the call's locals gone.
ListUsersReturn(p, kind, val, way, queries, sets) ==
    /\ resp' = [kind |-> kind, who |-> p, val |-> val,
                err |-> IF kind = "error" THEN "OperationalError" ELSE "none",
                path |-> way, nq |-> queries,
                nset |-> sets, mustSee |-> mustSee[p], mustSeeOld |-> mustSeeOld[p],
                mustSeeAb |-> mustSeeAb[p],
                after |-> IF lastCreate.reader = p /\ kind = "users"
                          THEN lastCreate ELSE NoCreate,
                delSaw |-> IF sets = nset[p] THEN "none"
                           ELSE IF cache.present THEN "present" ELSE "absent"]
    /\ lastCreate' = IF lastCreate.reader = p THEN NoCreate ELSE lastCreate
    /\ pc' = [pc EXCEPT ![p] = "idle"]
    /\ users_data' = [users_data EXCEPT ![p] = <<>>]
    /\ mustSee' = [mustSee EXCEPT ![p] = {}]
    /\ mustSeeOld' = [mustSeeOld EXCEPT ![p] = {}]
    /\ mustSeeAb' = [mustSeeAb EXCEPT ![p] = {}]
    /\ nq' = [nq EXCEPT ![p] = 0]
    /\ nset' = [nset EXCEPT ![p] = 0]

\* Lines 108-113: the get, and on a hit the return of the parsed text.
ListUsersGet(p) ==
    /\ pc[p] = "get"
    /\ LET cached_users_json == RedisGet(cache)
       IN \/ /\ Truthy(cached_users_json)
             /\ ListUsersReturn(p, "users", json_loads(cached_users_json), "hit",
                                nq[p], nset[p])
          \/ /\ ~Truthy(cached_users_json)
             /\ pc' = [pc EXCEPT ![p] = "query"]
             /\ resp' = NoResp
             /\ UNCHANGED << users_data, mustSee, mustSeeOld, mustSeeAb, nq, nset,
                             lastCreate >>
    /\ UNCHANGED << users, employees, cache, db_user, age, invalidated, filled,
                    fillAge, fillLive, ncreates, abandoned, bootVars, seedVars >>

\* The failure caught and cached as an empty list.
CacheEmptyOnFailure(c) == RedisSet(c, json_dumps(<<>>), CACHE_EXPIRY_SECONDS)

\* What an exception of the query leaves in the cache: it propagates before
\* line 124 is reached.
CacheAfterQueryFailure(c) == c

\* Lines 116-120: select(User), which the store may fail, and the dictionaries.
ListUsersQuery(p) ==
    /\ pc[p] = "query"
    /\ \/ /\ users_data' = [users_data EXCEPT ![p] = UsersData(SelectUsers(users))]
          /\ nq' = [nq EXCEPT ![p] = nq[p] + 1]
          /\ pc' = [pc EXCEPT ![p] = "set"]
          /\ resp' = NoResp
          /\ UNCHANGED << cache, mustSee, mustSeeOld, mustSeeAb, nset, lastCreate >>
       \/ /\ ListUsersReturn(p, "error", <<>>, "miss", nq[p] + 1, nset[p])
          /\ cache' = CacheAfterQueryFailure(cache)
    /\ UNCHANGED << users, employees, db_user, age, invalidated, filled, fillAge, fillLive,
                    ncreates, abandoned, bootVars, seedVars >>

\* Lines 123-128: the set with the expiry, and the return of users_data.
ListUsersSet(p) ==
    /\ pc[p] = "set"
    /\ cache' = RedisSet(cache, json_dumps(users_data[p]), CACHE_EXPIRY_SECONDS)
    /\ filled' = users_data[p]
    /\ fillAge' = 0
    /\ fillLive' = TRUE
    /\ ListUsersReturn(p, "users", users_data[p], "miss", nq[p], nset[p] + 1)
    /\ UNCHANGED << users, employees, db_user, age, invalidated, ncreates, abandoned,
                    bootVars, seedVars >>

\* ----------------------------------------------------------- POST /users/
CreateUserStart(p, name, email) ==
    /\ pc[p] = "idle"
    /\ ncreates < MaxCreates
    /\ ncreates' = ncreates + 1
    /\ db_user' = [db_user EXCEPT ![p] = [id |-> 0, name |-> name, email |-> email]]
    /\ pc' = [pc EXCEPT ![p] = "commit"]
    /\ lastCreate' = IF InFlight = {}
                     THEN [w |-> p, status |-> "running", rec |-> NoUser,
                           pre |-> RedisGet(cache), reader |-> "-"]
                     ELSE NoCreate
    /\ resp' = NoResp
    /\ UNCHANGED << users, employees, cache, users_data, age, invalidated,
                    mustSee, mustSeeOld, nq, nset, filled, fillAge, fillLive,
                    abandoned, mustSeeAb, bootVars, seedVars >>

\* create_user call p raises: the error response, and the call's locals gone.
CreateUserRaise(p, err) ==
    /\ resp' = [NoResp EXCEPT !.kind = "error", !.who = p, !.err = err]
    /\ lastCreate' = IF lastCreate.w = p THEN NoCreate ELSE lastCreate
    /\ pc' = [pc EXCEPT ![p] = "idle"]
    /\ db_user' = [db_user EXCEPT ![p] = NoUser]

\* Lines 135-137: the INSERT, refused by the unique index on email or failed
\* by the store; the flush gives the object its id.
CreateUserCommit(p) ==
    /\ pc[p] = "commit"
    /\ \/ /\ UniqueViolation(users, db_user[p].email)
          /\ CreateUserRaise(p, "IntegrityError")
          /\ UNCHANGED << users, age >>
       \/ /\ ~UniqueViolation(users, db_user[p].email)
          /\ CreateUserRaise(p, "OperationalError")
          /\ UNCHANGED << users, age >>
       \/ /\ ~UniqueViolation(users, db_user[p].email)
          /\ users' = InsertUser(users, db_user[p].name, db_user[p].email)
          /\ age' = Append(age, 0)
          /\ db_user' = [db_user EXCEPT ![p] = users'[Len(users')]]
          /\ pc' = [pc EXCEPT ![p] = "refresh"]
          /\ lastCreate' = IF lastCreate.w = p
                           THEN [lastCreate EXCEPT !.rec = users'[Len(users')]]
                           ELSE lastCreate
          /\ resp' = NoResp
    /\ UNCHANGED << employees, cache, users_data, invalidated, mustSee, mustSeeOld,
                    nq, nset, filled, fillAge, fillLive, ncreates, abandoned,
                    mustSeeAb, bootVars, seedVars >>

\* Line 138: the row is read back by its primary key; the store may fail.
CreateUserRefresh(p) ==
    /\ pc[p] = "refresh"
    /\ \/ /\ db_user' = [db_user EXCEPT
                           ![p] = CHOOSE u \in Range(users) : u.id = db_user[p].id]
          /\ pc' = [pc EXCEPT ![p] = "delete"]
          /\ resp' = NoResp
          /\ UNCHANGED lastCreate
       \/ CreateUserRaise(p, "OperationalError")
    /\ UNCHANGED << users, employees, cache, users_data, age, invalidated, mustSee,
                    mustSeeOld, nq, nset, filled, fillAge, fillLive, ncreates,
                    abandoned, mustSeeAb, bootVars, seedVars >>

\* Lines 141-146: the delete of the key and the return of the created record.
CreateUserDelete(p) ==
    /\ pc[p] = "delete"
    /\ cache' = RedisDelete(cache)
    /\ filled' = <<>>
    /\ fillLive' = FALSE
    /\ invalidated' = invalidated \cup {db_user[p].id}
    /\ resp' = [NoResp EXCEPT
                  !.kind = "user", !.who = p,
                  !.val = << [id |-> db_user[p].id, name |-> db_user[p].name,
                              email |-> db_user[p].email] >>,
                  !.delSaw = IF cache.present THEN "present" ELSE "absent"]
    /\ lastCreate' = IF lastCreate.w = p
                     THEN [lastCreate EXCEPT !.status = "returned"]
                     ELSE lastCreate
    /\ pc' = [pc EXCEPT ![p] = "idle"]
    /\ db_user' = [db_user EXCEPT ![p] = NoUser]
    /\ UNCHANGED << users, employees, users_data, age, mustSee, mustSeeOld, nq, nset,
                    fillAge, ncreates, abandoned, mustSeeAb, bootVars, seedVars >>

\* create_user call p is cancelled (the client went away) at an await after the
\* commit of line 137 and before the delete of line 142 is sent: the handler is
\* gone, nothing of it runs again and nobody gets an answer.
CreateUserCancel(p) ==
    /\ pc[p] \in {"refresh", "delete"}
    /\ abandoned' = abandoned \cup
                       {[id |-> db_user[p].id, had |-> cache.present,
                         left |-> IF cache.present THEN cache.ttl ELSE 0]}
    /\ pc' = [pc EXCEPT ![p] = "idle"]
    /\ db_user' = [db_user EXCEPT ![p] = NoUser]
    /\ lastCreate' = IF lastCreate.w = p THEN NoCreate ELSE lastCreate
    /\ resp' = NoResp
    /\ UNCHANGED << users, employees, cache, users_data, age, invalidated, mustSee,
                    mustSeeOld, nq, nset, filled, fillAge, fillLive, ncreates,
                    mustSeeAb, bootVars, seedVars >>

\* -------------------------------------------------------- GET /employees/
\* list_employees deleting the users key as create_user does.
ListEmployeesInvalidating(p) ==
    /\ \/ resp' = [NoResp EXCEPT !.kind = "employees", !.who = p,
                                 !.val = EmployeesData(SelectEmployees(employees))]
       \/ resp' = [NoResp EXCEPT !.kind = "error", !.who = p,
                                 !.err = "OperationalError"]
    /\ cache' = RedisDelete(cache)
    /\ lastCreate' = NoCreate
    /\ UNCHANGED << users, employees, pc, users_data, db_user, age, invalidated,
                    mustSee, mustSeeOld, nq, nset, filled, fillAge, fillLive, ncreates,
                    abandoned, mustSeeAb, bootVars, seedVars >>

\* Lines 150-162: the call has one await, select(Employee), which the store may
\* fail; the rest of it touches nothing shared, so the call is one step.
ListEmployees(p) ==
    /\ \/ resp' = [NoResp EXCEPT !.kind = "employees", !.who = p,
                                 !.val = EmployeesData(SelectEmployees(employees))]
       \/ resp' = [NoResp EXCEPT !.kind = "error", !.who = p,
                                 !.err = "OperationalError"]
    /\ lastCreate' = NoCreate
    /\ UNCHANGED << users, employees, cache, pc, users_data, db_user, age, invalidated,
                    mustSee, mustSeeOld, nq, nset, filled, fillAge, fillLive, ncreates,
                    abandoned, mustSeeAb, bootVars, seedVars >>

\* ------------------------------------------------------------------ clock
\* TickSeconds seconds pass: Redis drops the entry once its time is up.
Tick ==
    /\ cache' = RedisExpire(cache, TickSeconds)
    /\ age' = [i \in DOMAIN age |-> Min(age[i] + TickSeconds, CACHE_EXPIRY_SECONDS)]
    /\ fillAge' = Min(fillAge + TickSeconds, CACHE_EXPIRY_SECONDS)
    /\ filled' = IF fillAge' < CACHE_EXPIRY_SECONDS THEN filled ELSE <<>>
    /\ UNCHANGED fillLive
    /\ resp' = NoResp
    /\ abandoned' = {[a EXCEPT !.left = IF a.left > TickSeconds
                                        THEN a.left - TickSeconds ELSE 0] :
                       a \in abandoned}
    /\ UNCHANGED << users, employees, pc, users_data, db_user, invalidated,
                    mustSee, mustSeeOld, nq, nset, lastCreate, ncreates, mustSeeAb,
                    bootVars, seedVars >>

Next ==
    \/ \E p \in Readers : ListUsersStart(p)
    \/ \E p \in Readers : ListUsersGet(p)
    \/ \E p \in Readers : ListUsersQuery(p)
    \/ \E p \in Readers : ListUsersSet(p)
    \/ \E p \in Writers, name \in Names, email \in Emails : CreateUserStart(p, name, email)
    \/ \E p \in Writers : CreateUserCommit(p)
    \/ \E p \in Writers : CreateUserRefresh(p)
    \/ \E p \in Writers : CreateUserDelete(p)
    \/ \E p \in EmpReaders : ListEmployees(p)
    \/ Tick

Spec == Init /\ [][Next]_vars

\* A request that has started goes on to its next await and returns (the event
\* loop resumes every handler whose await has an answer), and time passes.
Fairness ==
    /\ \A p \in Readers :
          WF_vars(ListUsersGet(p) \/ ListUsersQuery(p) \/ ListUsersSet(p))
    /\ \A p \in Writers :
          WF_vars(CreateUserCommit(p) \/ CreateUserRefresh(p) \/ CreateUserDelete(p))
    /\ WF_vars(Tick)

\* The users side of the service alone (list_employees shares nothing with
\* it), under that fairness.
LiveInit == Init /\ employees = SeedEmployees

LiveNext ==
    \/ \E p \in Readers : ListUsersStart(p)
    \/ \E p \in Readers : ListUsersGet(p)
    \/ \E p \in Readers : ListUsersQuery(p)
    \/ \E p \in Readers : ListUsersSet(p)
    \/ \E p \in Writers, name \in Names, email \in Emails : CreateUserStart(p, name, email)
    \/ \E p \in Writers : CreateUserCommit(p)
    \/ \E p \in Writers : CreateUserRefresh(p)
    \/ \E p \in Writers : CreateUserDelete(p)
    \/ Tick

LiveSpec == LiveInit /\ [][LiveNext]_vars /\ Fairness

\* The users side of the service with clients that may go away during
\* create_user.
CancelNext ==
    \/ LiveNext
    \/ \E p \in Writers : CreateUserCancel(p)

CancelSpec == LiveInit /\ [][CancelNext]_vars

\* ------------------------------------------------------------- seed_db.py
\* Line 61: a run of the script starts; runs follow one another.
SeedStart ==
    /\ spc = "idle"
    /\ nruns < MaxSeedRuns
    /\ nruns' = nruns + 1
    /\ spc' = "select"
    /\ retries' = 0
    /\ empBefore' = employees
    /\ resp' = NoResp
    /\ UNCHANGED << users, employees, cache, pc, users_data, db_user, age,
                    invalidated, mustSee, mustSeeOld, nq, nset, filled, fillAge,
                    fillLive, lastCreate, ncreates, abandoned, mustSeeAb, bootVars,
                    outcomes >>

\* The call of seed_employees returns, and with it every call it is nested in
\* (nothing follows line 54 in the caller).
SeedReturn(how) ==
    /\ spc' = "idle"
    /\ outcomes' = Append(outcomes, how)

\* Lines 27-32: select(Employee); the store may fail it (line 47), a table
\* with rows ends the run, an empty one goes on to the insert.
SeedSelect ==
    /\ spc = "select"
    /\ \/ spc' = "create" /\ UNCHANGED outcomes
       \/ /\ SeedSkips(SelectEmployees(employees))
          /\ SeedReturn("skipped")
       \/ /\ ~SeedSkips(SelectEmployees(employees))
          /\ spc' = "commit"
          /\ UNCHANGED outcomes
    /\ resp' = NoResp
    /\ UNCHANGED << users, employees, cache, pc, users_data, db_user, age,
                    invalidated, mustSee, mustSeeOld, nq, nset, filled, fillAge,
                    fillLive, lastCreate, ncreates, abandoned, mustSeeAb, bootVars,
                    nruns, retries, empBefore >>

\* Lines 35-45: the four rows are added and committed, or the store fails the
\* commit (line 47) and nothing is added.
SeedCommit ==
    /\ spc = "commit"
    /\ \/ /\ employees' = AddSeedEmployees(employees)
          /\ SeedReturn("seeded")
       \/ /\ spc' = "create"
          /\ UNCHANGED << employees, outcomes >>
    /\ resp' = NoResp
    /\ UNCHANGED << users, cache, pc, users_data, db_user, age,
                    invalidated, mustSee, mustSeeOld, nq, nset, filled, fillAge,
                    fillLive, lastCreate, ncreates, abandoned, mustSeeAb, bootVars,
                    nruns, retries, empBefore >>

\* Lines 47-56, the error path: create_all, then seed_employees again from
\* line 54, one call deeper. An error of create_all, or the RecursionError of
\* a call too deep, is caught at line 55 and the run returns.
SeedCreateTables ==
    /\ spc = "create"
    /\ \/ /\ SeedReturn("failed")
          /\ UNCHANGED retries
       \/ /\ ~RecursionExceeded(retries)
          /\ retries' = retries + 1
          /\ spc' = "select"
          /\ UNCHANGED outcomes
    /\ resp' = NoResp
    /\ UNCHANGED << users, employees, cache, pc, users_data, db_user, age,
                    invalidated, mustSee, mustSeeOld, nq, nset, filled, fillAge,
                    fillLive, lastCreate, ncreates, abandoned, mustSeeAb, bootVars,
                    nruns, empBefore >>

\* The table employees, its seeding script and its readers.
SeedInit ==
    /\ InitCore
    /\ employees \in {<<>>, SeedEmployees, OtherEmployees}
    /\ phase = "serving"

SeedNext ==
    \/ SeedStart
    \/ SeedSelect
    \/ SeedCommit
    \/ SeedCreateTables
    \/ \E p \in EmpReaders : ListEmployees(p)

\* asyncio.run drives the one coroutine of the script until it returns.
SeedFairness == WF_vars(SeedSelect \/ SeedCommit \/ SeedCreateTables)

SeedSpec == SeedInit /\ [][SeedNext]_vars /\ SeedFairness

\* ---------------------------------------------------------------- startup
\* Line 64: create_tables; an error of the store leaves on_startup, and the
\* application does not start.
OnStartupCreateTables ==
    /\ phase = "startup"
    /\ phase' \in {"ping", "failed"}
    /\ UNCHANGED << users, employees, cache, pc, users_data, db_user, resp, age,
                    invalidated, mustSee, mustSeeOld, nq, nset, filled, fillAge,
                    fillLive, lastCreate, ncreates, abandoned, mustSeeAb, pingFailed,
                    seedVars >>

\* Lines 69-76: the client is made and pinged. The ping answers; or it raises
\* redis.ConnectionError, which the except clause prints and drops (the raise
\* of line 76 is a comment), and on_startup returns as after an answer; or it
\* raises an error that is no ConnectionError, which leaves on_startup.
OnStartupPing ==
    /\ phase = "ping"
    /\ \/ phase' = "serving" /\ pingFailed' = FALSE
       \/ phase' = "serving" /\ pingFailed' = TRUE
       \/ phase' = "failed" /\ pingFailed' = FALSE
    /\ UNCHANGED << users, employees, cache, pc, users_data, db_user, resp, age,
                    invalidated, mustSee, mustSeeOld, nq, nset, filled, fillAge,
                    fillLive, lastCreate, ncreates, abandoned, mustSeeAb, seedVars >>

\* The process from its start: requests are taken once on_startup has
\* returned.
BootInit ==
    /\ InitCore
    /\ employees = SeedEmployees
    /\ phase = "startup"

BootNext ==
    \/ OnStartupCreateTables
    \/ OnStartupPing
    \/ phase = "serving" /\ LiveNext

BootSpec == BootInit /\ [][BootNext]_vars

\* ------------------------------------------------------------- properties
\* What GET /users/ answers from the present state: the cached text if there is
\* one, the table otherwise.
ListView ==
    IF cache.present /\ Len(cache.val) > 0
    THEN json_loads(cache.val)
    ELSE [i \in DOMAIN users |->
            [id |-> users[i].id, name |-> users[i].name, email |-> users[i].email]]

\* C1: a list_users call that follows a successful create_user call, both run
\* with no other request in flight, returns the created record and does not
\* return the snapshot that was cached when the create_user call started.
C1_SequentialInvalidation ==
    (resp.kind = "users" /\ resp.after.status = "returned")
        => /\ \E i \in DOMAIN resp.val : resp.val[i] = resp.after.rec
           /\ resp.after.pre # None => resp.val # json_loads(resp.after.pre)

C1_Witness ==
    /\ resp.kind = "users"
    /\ resp.after.status = "returned"
    /\ resp.after.pre # None
    /\ Len(resp.val) > 1

\* C2: a list_users call that starts after the cache delete of a create_user
\* call returns a result that contains the created record.
C2_ReadYourWrites ==
    resp.kind = "users" => resp.mustSee \subseteq Ids(resp.val)

\* C3: a present cache entry is a snapshot of the users table that was current
\* less than a TTL ago, and holds every row whose create_user call has returned.
C3_CacheEntryInvariant ==
    cache.present =>
        LET snap == json_loads(cache.val)
            k == Len(snap)
        IN /\ k <= Len(users)
           /\ snap = [i \in 1..k |-> [id |-> users[i].id, name |-> users[i].name,
                                      email |-> users[i].email]]
           /\ k < Len(users) => age[k + 1] < CACHE_EXPIRY_SECONDS
           /\ invalidated \subseteq Ids(snap)

\* C4: a list_users call that starts a TTL or more after the commit of a row
\* returns a result that contains the row.
C4_StalenessBound ==
    resp.kind = "users" => resp.mustSeeOld \subseteq Ids(resp.val)

\* C5: a list_users call whose get runs after a cache set, less than a TTL
\* after it and with no delete in between, returns what the call of that set
\* returned and queries the Record Store not once; so too for an empty list.
C5_CacheHitFidelity ==
    [][\A p \in Readers :
          (pc[p] = "get" /\ pc'[p] # "get" /\ fillLive
             /\ fillAge < CACHE_EXPIRY_SECONDS)
          => /\ resp'.kind = "users"
             /\ resp'.who = p
             /\ resp'.path = "hit"
             /\ resp'.val = filled
             /\ resp'.nq = 0
             /\ users_data'[p] = <<>>]_vars

C5_Witness ==
    /\ resp.kind = "users"
    /\ resp.path = "hit"
    /\ resp.val = <<>>
    /\ fillLive
    /\ fillAge > 0

\* C6: every cache set gives the entry 60 seconds to live; a TTL after the last
\* set there is no entry, and the get of a list_users call then misses and the
\* call goes on to query the Record Store.
C6_TtlExpiry ==
    /\ [](fillAge >= CACHE_EXPIRY_SECONDS => ~cache.present)
    /\ [][\A p \in Readers :
             /\ (pc[p] = "set" /\ pc'[p] # "set")
                  => (cache'.present /\ cache'.ttl = 60)
             /\ (pc[p] = "get" /\ pc'[p] # "get" /\ fillAge >= CACHE_EXPIRY_SECONDS)
                  => pc'[p] = "query"]_vars

C6_Witness ==
    /\ fillLive
    /\ fillAge >= CACHE_EXPIRY_SECONDS
    /\ ~cache.present
    /\ \E p \in Readers : pc[p] = "query"

\* C7: the commit of a create_user call whose email is in the users table
\* fails, and leaves the table, the cache entry and what list_users answers as
\* they were; no cache delete is issued.
C7_FailedWriteUnchanged ==
    [][\A p \in Writers :
          (pc[p] = "commit" /\ pc'[p] # "commit"
             /\ \E i \in DOMAIN users : users[i].email = db_user[p].email)
          => /\ resp'.kind = "error"
             /\ resp'.who = p
             /\ users' = users
             /\ cache' = cache
             /\ invalidated' = invalidated
             /\ fillLive' = fillLive
             /\ ListView' = ListView]_vars

C7_Witness ==
    /\ resp.kind = "error"
    /\ resp.err = "IntegrityError"
    /\ cache.present
    /\ Len(users) > 0

\* C8: a list_users call whose Record Store query fails returns an error and
\* has set nothing in the cache: the entry is what it was, absent if it was
\* absent, and the get of the next call misses.
C8_FailureNotCached ==
    [][\A p \in Readers :
          (pc[p] = "query" /\ resp'.kind = "error" /\ resp'.who = p)
          => /\ cache' = cache
             /\ resp'.nset = 0
             /\ pc'[p] = "idle"]_vars

C8_Witness ==
    /\ resp.kind = "error"
    /\ resp.who \in Readers
    /\ resp.path = "miss"
    /\ ~cache.present

\* C9: the cache delete of create_user succeeds with or without an entry, and
\* leaves no entry; a second delete leaves what the first left.
C9_IdempotentInvalidation ==
    [][\A p \in Writers :
          (pc[p] = "delete" /\ pc'[p] # "delete")
          => /\ resp'.kind = "user"
             /\ resp'.who = p
             /\ ~cache'.present
             /\ RedisDelete(cache') = cache']_vars

C9_Witness ==
    /\ resp.kind = "user"
    /\ resp.delSaw = "absent"
    /\ ~cache.present
    /\ Len(users) > 1

\* C10: list_employees leaves the cache and the users table as they are and
\* returns the rows of the employees table, whatever the cache and the users
\* table hold; no list_users or create_user step changes the employees table.
C10_UncachedPathIndependence ==
    [][/\ employees' = employees
       /\ resp'.who \in EmpReaders
            => /\ cache' = cache
               /\ users' = users
               /\ resp'.kind = "employees"
                    => resp'.val = [i \in DOMAIN employees |->
                                      [id |-> employees[i].id,
                                       name |-> employees[i].name]]]_vars

C10_Witness ==
    /\ resp.kind = "employees"
    /\ Len(resp.val) > 0
    /\ cache.present
    /\ Len(users) > 0

\* The users table up to row k, as list_users writes it.
Snapshot(k) ==
    [i \in 1..k |-> [id |-> users[i].id, name |-> users[i].name,
                     email |-> users[i].email]]

\* l is the whole users table as it was at one instant: rows are only appended,
\* so the table at an earlier instant is the first rows of the table now.
IsSnapshot(l) == Len(l) <= Len(users) /\ l = Snapshot(Len(l))

\* C11: every list_users result and every cache entry is the whole users table
\* of one instant: a miss returns and caches the table as its own query found
\* it, a hit returns the entry as the set wrote it.
C11_SnapshotNeverMix ==
    /\ [](resp.kind = "users" => IsSnapshot(resp.val))
    /\ [](cache.present => IsSnapshot(json_loads(cache.val)))
    /\ [][/\ Len(users) <= Len(users')
          /\ users = SubSeq(users', 1, Len(users))
          /\ \A p \in Readers :
               /\ (pc[p] = "query" /\ pc'[p] = "set")
                    => users_data'[p] = Snapshot(Len(users))
               /\ (pc[p] = "set" /\ pc'[p] # "set")
                    => /\ json_loads(cache'.val) = users_data[p]
                       /\ resp'.val = users_data[p]
               /\ (pc[p] = "get" /\ pc'[p] = "idle")
                    => resp'.val = json_loads(cache.val)]_vars

C11_Witness ==
    /\ resp.kind = "users"
    /\ resp.path = "hit"
    /\ Len(resp.val) = 1
    /\ Len(users) > 1
    /\ cache.present

\* C13: two list_users calls that overlap and have both missed and read the
\* table write equal values to the cache.
C13_ConcurrentMissesEqual ==
    \A p, q \in Readers :
        (pc[p] = "set" /\ pc[q] = "set")
            => json_dumps(users_data[p]) = json_dumps(users_data[q])

\* The cell changed: an entry came or went, or its text or its deadline changed
\* (seconds passing on a live entry is no change of the cell).
CellChanged ==
    \/ cache'.present # cache.present
    \/ cache'.val # cache.val
    \/ cache'.ttl > cache.ttl

FillStep(p) == pc[p] = "set" /\ pc'[p] = "idle" /\ resp'.who = p /\ resp'.kind = "users"

ExpiryStep == cache.present /\ ~cache'.present /\ pc' = pc /\ resp' = NoResp
                /\ cache.ttl <= TickSeconds

DeleteStep(p) == pc[p] = "delete" /\ pc'[p] = "idle" /\ resp'.who = p /\ resp'.kind = "user"

\* C15 as stated: every change of the cell is EMPTY to VALID by the fill of a
\* miss, VALID to EMPTY by expiry, or VALID-or-EMPTY to EMPTY by the delete of
\* a successful create_user.
C15_ThreeTransitions ==
    [][CellChanged =>
          \/ \E p \in Readers : FillStep(p) /\ ~cache.present /\ cache'.present
          \/ ExpiryStep
          \/ \E p \in Writers : DeleteStep(p) /\ ~cache'.present]_vars

\* C15 amended: every change of the cell is the fill of a miss (to VALID, from
\* EMPTY or from VALID), VALID to EMPTY by expiry, or VALID-or-EMPTY to EMPTY by
\* the delete of a successful create_user; hits, list_employees and failed
\* create_user calls leave the cell as it is.
C15_CellTransitions ==
    [][/\ CellChanged =>
             \/ \E p \in Readers : FillStep(p) /\ cache'.present
                                     /\ cache'.ttl = CACHE_EXPIRY_SECONDS
             \/ ExpiryStep
             \/ \E p \in Writers : DeleteStep(p) /\ ~cache'.present
       /\ (resp'.kind \in {"employees", "error"} \/ resp'.path = "hit")
             => cache' = cache]_vars

C15_Witness ==
    /\ resp.kind = "users"
    /\ resp.path = "miss"
    /\ cache.present
    /\ resp.delSaw = "present"

\* C16: create_user deletes the key in the step that returns, after its row
\* is in the table; no other step of the call deletes; the delete is the first
\* for that row, and the record returned is the row the call inserted, with the
\* id the store gave it.
C16_InsertThenInvalidate ==
    [][\A p \in Writers :
          /\ (pc[p] = "delete" /\ pc'[p] # "delete")
               => /\ \E i \in DOMAIN users :
                       /\ users[i].email = db_user[p].email
                       /\ resp'.val = << [id |-> users[i].id, name |-> users[i].name,
                                          email |-> users[i].email] >>
                  /\ \A i, j \in DOMAIN users : users[i].id = users[j].id => i = j
                  /\ resp'.kind = "user"
                  /\ resp'.who = p
                  /\ db_user[p].id \notin invalidated
                  /\ invalidated' = invalidated \cup {db_user[p].id}
                  /\ ~cache'.present
          /\ (pc[p] # "delete" /\ pc'[p] # pc[p])
               => /\ invalidated' = invalidated
                  /\ resp'.kind # "user"
                  /\ cache' = cache
          /\ pc'[p] = "delete" => pc[p] \in {"refresh", "delete"}
          /\ (pc'[p] = "refresh" /\ pc[p] # "refresh")
               => /\ pc[p] = "commit"
                  /\ Len(users') = Len(users) + 1
                  /\ users'[Len(users')].email = db_user[p].email]_vars

C16_Witness ==
    /\ resp.kind = "user"
    /\ resp.val[1].id > 1
    /\ resp.delSaw = "present"

\* C14: a create_user cancelled after its commit and before its delete leaves
\* the row in the table and the entry of the key as it was, and once that entry
\* has run out every list_users call started afterwards answers with the row.
C14_AbandonedWriteBounded ==
    /\ [](resp.kind = "users" => resp.mustSeeAb \subseteq Ids(resp.val))
    /\ [][AbandonedIds(abandoned') # AbandonedIds(abandoned) => cache' = cache /\ users' = users]_vars
    /\ [](\A a \in abandoned : a.id \in Ids(users))

\* C17: when the ping of on_startup cannot reach the cache, startup fails and
\* the service takes no request.
C17_StartupFatal == pingFailed => phase = "failed" /\ InFlight = {}

\* A run of seed_employees has returned.
SeedRunEnded == spc = "idle" /\ nruns > 0

LastOutcome == outcomes[Len(outcomes)]

\* C18 as stated: the rows are inserted only into an empty table, a run on a
\* table with rows leaves it as it was, and a run on an empty table leaves the
\* four seed rows; so runs one after another from an empty table leave four.
C18_SeedIdempotent ==
    /\ [][employees' # employees
            => employees = <<>> /\ employees' = AddSeedEmployees(<<>>)]_vars
    /\ [](SeedRunEnded
            => IF empBefore # <<>>
               THEN employees = empBefore
               ELSE Len(employees) = Len(SeedNames))

\* C18: the rows are inserted only into an empty table, a run on a table with
\* rows leaves it as it was, and a run on an empty table leaves the four seed
\* rows unless the store failed it, and then leaves the table empty; so after
\* runs one after another from an empty table the table holds the four rows
\* once a run has committed, and none before.
C18_SeedIdempotentOrFailed ==
    /\ [][employees' # employees
            => employees = <<>> /\ employees' = AddSeedEmployees(<<>>)]_vars
    /\ [](SeedRunEnded
            => IF empBefore # <<>>
               THEN employees = empBefore /\ LastOutcome \in {"skipped", "failed"}
               ELSE \/ LastOutcome = "seeded" /\ employees = AddSeedEmployees(<<>>)
                    \/ LastOutcome = "failed" /\ employees = <<>>)
    /\ [](\A i \in DOMAIN outcomes :
            outcomes[i] = "seeded" => /\ Len(employees) = Len(SeedNames)
                                      /\ \A j \in DOMAIN outcomes :
                                            j # i => outcomes[j] # "seeded")

C18_Witness ==
    /\ SeedRunEnded
    /\ nruns = MaxSeedRuns
    /\ outcomes[1] = "seeded"
    /\ \A i \in 2..MaxSeedRuns : outcomes[i] = "skipped"
    /\ employees = AddSeedEmployees(<<>>)

\* C19: every run of seed_employees returns, whatever the store answers: the
\* error path calls seed_employees again at most RecursionLimit times.
C19_SeedTerminates ==
    /\ [](spc # "idle" ~> spc = "idle")
    /\ [](retries <= RecursionLimit)

C19_Witness ==
    /\ SeedRunEnded
    /\ retries = RecursionLimit
    /\ LastOutcome = "failed"

\* C12: once create_user calls have stopped and the requests in flight have
\* returned, there is a point after which every list_users result is the users
\* table as it is.
C12_EventuallyFresh ==
    <>[](resp.kind = "users" => resp.val = Snapshot(Len(users)))

C12_Witness ==
    /\ ncreates = MaxCreates
    /\ InFlight = {}
    /\ cache.present
    /\ Len(json_loads(cache.val)) < Len(users)

====
